---- MODULE Spec2Model ----
(***************************************************************************)
(* Model of the weekly shopping list tab controller (ShoppingListApp) in   *)
(* its two variants: script.js (4 weeks, selectors .week-btn and           *)
(* .week-content) and the second script (5 weeks, selectors .sub-btn and   *)
(* #shopping-list .week-content).  The state is the controller's fields    *)
(* and the part of the DOM it reads and writes; every event handler and    *)
(* public method is one action.                                            *)
(***************************************************************************)
EXTENDS Integers, Sequences, FiniteSets, TLC

VARIABLES
    variant,       \* which script the page loads: "v4" or "v5"
    nButtons,      \* elements matching the trigger selector in the page
    nPanels,       \* elements matching the panel selector in the page
    phase,         \* "loading" before DOMContentLoaded, "ready" after
    app,           \* window.shoppingListApp is set
    listeners,     \* event listeners registered so far
    currentWeek,   \* this.currentWeek (0 while no controller exists)
    display,       \* content.style.display of each panel
    ariaHidden,    \* aria-hidden attribute of each panel
    active,        \* 'active' in button.classList, per trigger
    ariaSelected,  \* aria-selected attribute of each trigger
    liveRegions,   \* number of elements with id aria-live-region
    liveText,      \* textContent of the live region
    focus,         \* document.activeElement
    last,          \* the input last handled and what its handlers did
    deb,           \* a function made by Utils.debounce, and the timer table
    evq            \* the browser's queue of user inputs not yet dispatched

vars == <<variant, nButtons, nPanels, phase, app, listeners, currentWeek,
          display, ariaHidden, active, ariaSelected, liveRegions, liveText,
          focus, last, deb, evq>>

-----------------------------------------------------------------------------
(* Bounds of the model *)

\* largest number of triggers, and of panels, a page may contain
MaxElems == 5

\* calls made to the debounced function, and the argument values they use
MaxCalls == 5
MaxArg == 2

\* user inputs that arrive in one run of the event queue
MaxInputs == 3

-----------------------------------------------------------------------------
(* Program constants *)

MaxWeekV4 == 4
MaxWeekV5 == 5

Variants == {"v4", "v5"}

\* JavaScript numbers passed as weekNum: the integer n, or the non-integer
\* n + 1/2
Num(n)  == [int |-> TRUE,  n |-> n]
Half(n) == [int |-> FALSE, n |-> n]

\* Number.isInteger(x)
IsInteger(x) == x.int

\* x < c and x > c for an integer literal c
NumLT(x, c) == x.n < c
NumGT(x, c) == IF x.int THEN x.n > c ELSE x.n >= c

Min(a, b) == IF a < b THEN a ELSE b
Max(a, b) == IF a > b THEN a ELSE b

-----------------------------------------------------------------------------
(* Elements that can hold the input focus *)

Body     == [tag |-> "BODY",     idx |-> 0]
Input    == [tag |-> "INPUT",    idx |-> 0]
TextArea == [tag |-> "TEXTAREA", idx |-> 0]
Button(i) == [tag |-> "BUTTON",  idx |-> i]

Focusable(nb) == {Body, Input, TextArea} \cup {Button(i) : i \in 1..nb}

-----------------------------------------------------------------------------
(* Keys: KeyboardEvent.key values and their UTF-16 code units *)

Keys == {"Enter", " ", "ArrowLeft", "ArrowRight",
         "0", "1", "2", "3", "4", "5", "6"}

KeyCodes(k) ==
    CASE k = "Enter"      -> <<69, 110, 116, 101, 114>>
      [] k = " "          -> <<32>>
      [] k = "ArrowLeft"  -> <<65, 114, 114, 111, 119, 76, 101, 102, 116>>
      [] k = "ArrowRight" -> <<65, 114, 114, 111, 119, 82, 105, 103, 104, 116>>
      [] k = "0"          -> <<48>>
      [] k = "1"          -> <<49>>
      [] k = "2"          -> <<50>>
      [] k = "3"          -> <<51>>
      [] k = "4"          -> <<52>>
      [] k = "5"          -> <<53>>
      [] k = "6"          -> <<54>>

\* a <= b in JavaScript's string ordering (lexicographic by code unit)
RECURSIVE CodesLE(_, _)
CodesLE(a, b) ==
    IF a = <<>> THEN TRUE
    ELSE IF b = <<>> THEN FALSE
    ELSE IF Head(a) < Head(b) THEN TRUE
    ELSE IF Head(a) > Head(b) THEN FALSE
    ELSE CodesLE(Tail(a), Tail(b))

\* e.key >= lo && e.key <= hi
KeyInRange(k, lo, hi) ==
    CodesLE(KeyCodes(lo), KeyCodes(k)) /\ CodesLE(KeyCodes(k), KeyCodes(hi))

\* parseInt(e.key): the value of the leading decimal digits
RECURSIVE ParseDigits(_, _)
ParseDigits(cs, acc) ==
    IF cs = <<>> \/ Head(cs) < 48 \/ Head(cs) > 57 THEN acc
    ELSE ParseDigits(Tail(cs), 10 * acc + (Head(cs) - 48))

ParseInt(k) == Num(ParseDigits(KeyCodes(k), 0))

\* the digit key of week n, as the user presses it
DigitKey(n) ==
    CASE n = 0 -> "0" [] n = 1 -> "1" [] n = 2 -> "2" [] n = 3 -> "3"
      [] n = 4 -> "4" [] n = 5 -> "5" [] n = 6 -> "6"
      [] OTHER -> "other"

-----------------------------------------------------------------------------
(* The controller and the DOM it touches, as one record *)

St == [phase        |-> phase,
       app          |-> app,
       listeners    |-> listeners,
       currentWeek  |-> currentWeek,
       display      |-> display,
       ariaHidden   |-> ariaHidden,
       active       |-> active,
       ariaSelected |-> ariaSelected,
       liveRegions  |-> liveRegions,
       liveText     |-> liveText,
       focus        |-> focus,
       selects      |-> 0,      \* showWeek calls made by the input being handled
       announces    |-> 0,      \* live-region texts it wrote
       alerts       |-> 0]      \* alert() dialogs it raised

\* the hard-coded upper bound of the variant
MaxWeek(v) == IF v = "v4" THEN MaxWeekV4 ELSE MaxWeekV5

\* `Mostrando lista de la semana ${weekNum}`
Announcement(weekNum) == <<"Mostrando lista de la semana", weekNum>>

\* showError: console.error and a blocking alert
showError(s) == [s EXCEPT !.alerts = @ + 1]

\* updateWeekDisplay that shows and marks the chosen week without hiding
\* or unmarking the others
updateWeekDisplay_NoHide(s, weekNum) ==
    [s EXCEPT
       !.display      = [i \in DOMAIN s.display |->
                            IF i = weekNum THEN "block" ELSE s.display[i]],
       !.ariaHidden   = [i \in DOMAIN s.ariaHidden |->
                            IF i = weekNum THEN "false" ELSE s.ariaHidden[i]],
       !.active       = [i \in DOMAIN s.active |-> i = weekNum \/ s.active[i]],
       !.ariaSelected = [i \in DOMAIN s.ariaSelected |->
                            IF i = weekNum THEN "true" ELSE s.ariaSelected[i]]]

\* updateWeekDisplay: every panel and every trigger is rewritten
updateWeekDisplay(s, weekNum) ==
    [s EXCEPT
       !.display      = [i \in DOMAIN s.display |->
                            IF i = weekNum THEN "block" ELSE "none"],
       !.ariaHidden   = [i \in DOMAIN s.ariaHidden |->
                            IF i = weekNum THEN "false" ELSE "true"],
       !.active       = [i \in DOMAIN s.active |-> i = weekNum],
       !.ariaSelected = [i \in DOMAIN s.ariaSelected |->
                            IF i = weekNum THEN "true" ELSE "false"]]

\* createAriaLiveRegion that appends a new region without looking one up
createAriaLiveRegion_AlwaysCreate(s, message) ==
    [s EXCEPT !.liveRegions = @ + 1,
              !.liveText    = message,
              !.announces   = @ + 1]

\* createAriaLiveRegion: look the region up by id, create it if absent,
\* then set its text
createAriaLiveRegion(s, message) ==
    [s EXCEPT !.liveRegions = IF @ = 0 THEN 1 ELSE @,
              !.liveText    = message,
              !.announces   = @ + 1]

\* an announcement that is skipped when the live region already holds it
announceWeekChange_Dedup(s, weekNum) ==
    IF s.liveText = Announcement(weekNum)
    THEN s
    ELSE createAriaLiveRegion(s, Announcement(weekNum))

announceWeekChange(s, weekNum) ==
    createAriaLiveRegion(s, Announcement(weekNum))

\* a validation that lets week 0 through (weekNum < 0 for weekNum < 1)
InvalidWeek_ZeroBased(v, weekNum) ==
    ~IsInteger(weekNum) \/ NumLT(weekNum, 0) \/ NumGT(weekNum, MaxWeek(v))

\* the validation at the head of showWeek
InvalidWeek(v, weekNum) ==
    ~IsInteger(weekNum) \/ NumLT(weekNum, 1) \/ NumGT(weekNum, MaxWeek(v))

\* showWeek that announces before it validates
showWeek_AnnounceFirst(s, v, weekNum) ==
    LET s0 == announceWeekChange([s EXCEPT !.selects = @ + 1], weekNum.n)
    IN  IF InvalidWeek(v, weekNum)
        THEN showError(s0)
        ELSE updateWeekDisplay([s0 EXCEPT !.currentWeek = weekNum.n],
                               weekNum.n)

\* showWeek that assigns currentWeek before it validates
showWeek_AssignFirst(s, v, weekNum) ==
    LET s0 == [s EXCEPT !.selects = @ + 1, !.currentWeek = weekNum.n]
    IN  IF InvalidWeek(v, weekNum)
        THEN showError(s0)
        ELSE announceWeekChange(updateWeekDisplay(s0, weekNum.n), weekNum.n)

\* showWeek: validate, then set currentWeek, render and announce; a failed
\* validation throws into the method's own catch, which alerts
\* showWeek that renders and announces but never stores currentWeek
showWeek_NoAssign(s, v, weekNum) ==
    LET s0 == [s EXCEPT !.selects = @ + 1]
    IN  IF InvalidWeek(v, weekNum)
        THEN showError(s0)
        ELSE announceWeekChange(updateWeekDisplay(s0, weekNum.n), weekNum.n)

showWeek(s, v, weekNum) ==
    LET s0 == [s EXCEPT !.selects = @ + 1]
    IN  IF InvalidWeek(v, weekNum)
        THEN showError(s0)
        ELSE announceWeekChange(
                 updateWeekDisplay([s0 EXCEPT !.currentWeek = weekNum.n],
                                   weekNum.n),
                 weekNum.n)

\* focusWeekButton that indexes weekButtons with weekNum instead of
\* weekNum - 1
focusWeekButton_OffByOne(s, weekNum) ==
    IF weekNum + 1 \in DOMAIN s.active
    THEN [s EXCEPT !.focus = Button(weekNum + 1)]
    ELSE s

\* focusWeekButton: focus the trigger if there is one at that position
focusWeekButton(s, weekNum) ==
    IF weekNum \in DOMAIN s.active
    THEN [s EXCEPT !.focus = Button(weekNum)]
    ELSE s

\* nextWeek that wraps from the last week to the first
nextWeek_Wrap(s, v) ==
    showWeek(s, v, Num(IF s.currentWeek + 1 > MaxWeek(v)
                       THEN 1 ELSE s.currentWeek + 1))

nextWeek(s, v) ==
    showWeek(s, v, Num(Min(MaxWeek(v), s.currentWeek + 1)))

\* previousWeek that forgets to step back
previousWeek_NoStep(s, v) ==
    showWeek(s, v, Num(Max(1, s.currentWeek)))

\* previousWeek that returns at the first week without calling showWeek
previousWeek_StopAtStart(s, v) ==
    IF s.currentWeek <= 1
    THEN s
    ELSE showWeek(s, v, Num(s.currentWeek - 1))

previousWeek(s, v) ==
    showWeek(s, v, Num(Max(1, s.currentWeek - 1)))

-----------------------------------------------------------------------------
(* Event listeners.  An event e is [key, altKey, target]. *)

\* a click listener that passes the zero-based index to showWeek
buttonClick_ZeroBased(s, v, weekNumber) == showWeek(s, v, Num(weekNumber - 1))

\* click listener of the trigger at position weekNumber (index + 1)
buttonClick(s, v, weekNumber) == showWeek(s, v, Num(weekNumber))

\* keydown listener of the trigger at position weekNumber
buttonKeydown(s, v, weekNumber, e) ==
    IF e.key = "Enter" \/ e.key = " "
    THEN showWeek(s, v, Num(weekNumber))
    ELSE s

IsArrow(e) == e.key = "ArrowLeft" \/ e.key = "ArrowRight"

\* an arrow branch that wraps around at both ends instead of clamping
arrowBranch_Wrap(s, v, e) ==
    IF IsArrow(e)
    THEN LET direction == IF e.key = "ArrowLeft" THEN -1 ELSE 1
             stepped   == s.currentWeek + direction
             newWeek   == IF stepped < 1 THEN MaxWeek(v)
                          ELSE IF stepped > MaxWeek(v) THEN 1 ELSE stepped
         IN  focusWeekButton(showWeek(s, v, Num(newWeek)), newWeek)
    ELSE s

\* the arrow branch of the controller's document keydown listener
arrowBranch(s, v, e) ==
    IF IsArrow(e)
    THEN LET direction == IF e.key = "ArrowLeft" THEN -1 ELSE 1
             newWeek   == Max(1, Min(MaxWeek(v), s.currentWeek + direction))
         IN  focusWeekButton(showWeek(s, v, Num(newWeek)), newWeek)
    ELSE s

\* a digit branch that keeps the other script's range of 1 to 4
digitBranch_UpTo4(s, v, e) ==
    IF KeyInRange(e.key, "1", "4")
    THEN LET weekNumber == ParseInt(e.key)
         IN  focusWeekButton(showWeek(s, v, weekNumber), weekNumber.n)
    ELSE s

\* the digit branch (second script only)
digitBranch(s, v, e) ==
    IF KeyInRange(e.key, "1", "5")
    THEN LET weekNumber == ParseInt(e.key)
         IN  focusWeekButton(showWeek(s, v, weekNumber), weekNumber.n)
    ELSE s

\* the controller's keydown listener on document
documentKeydown(s, v, e) ==
    IF v = "v4"
    THEN arrowBranch(s, v, e)
    ELSE IF e.target.tag = "INPUT" \/ e.target.tag = "TEXTAREA"
         THEN s
         ELSE digitBranch(arrowBranch(s, v, e), v, e)

\* an Alt+digit listener with the range '1' to '5' in both scripts
globalKeydown_UpTo5(s, v, e) ==
    IF e.altKey /\ KeyInRange(e.key, "1", "5")
    THEN showWeek(s, v, ParseInt(e.key))
    ELSE s

\* the Alt+digit keydown listener the page bootstrap adds on document
globalKeydown(s, v, e) ==
    IF e.altKey /\ KeyInRange(e.key, "1", DigitKey(MaxWeek(v)))
    THEN showWeek(s, v, ParseInt(e.key))
    ELSE s

\* a keydown event travels from its target up to document; listeners on the
\* same node run in registration order
dispatchKeydown(s, v, e) ==
    LET s1 == IF e.target.tag = "BUTTON" /\ "buttonKeydown" \in s.listeners
              THEN buttonKeydown(s, v, e.target.idx, e) ELSE s
        s2 == IF "documentKeydown" \in s.listeners
              THEN documentKeydown(s1, v, e) ELSE s1
    IN  IF "globalKeydown" \in s2.listeners
        THEN globalKeydown(s2, v, e) ELSE s2

dispatchClick(s, v, i) ==
    IF "click" \in s.listeners THEN buttonClick(s, v, i) ELSE s

-----------------------------------------------------------------------------
(* Construction and page bootstrap *)

\* setupAccessibility: roles and labels; script.js also presets aria-selected
setupAccessibility(s, v) ==
    IF v = "v4"
    THEN [s EXCEPT !.ariaSelected = [i \in DOMAIN s.ariaSelected |->
                                        IF i = 1 THEN "true" ELSE "false"]]
    ELSE s

\* constructor and init
construct(s, v) ==
    LET s0 == [s EXCEPT !.currentWeek = 1]
        s1 == [s0 EXCEPT !.listeners =
                   @ \cup {"click", "buttonKeydown", "documentKeydown"}]
        s2 == setupAccessibility(s1, v)
    IN  updateWeekDisplay(s2, s2.currentWeek)

\* the fallback of the bootstrap's catch: show every panel
fallback(s) ==
    [s EXCEPT !.display = [i \in DOMAIN s.display |-> "block"]]

\* a bootstrap that constructs the controller without checking the
\* selectors
bootstrap_NoCheck(s, v) ==
    [construct([s EXCEPT !.phase = "ready"], v)
        EXCEPT !.app = TRUE, !.listeners = @ \cup {"globalKeydown"}]

\* the DOMContentLoaded listener
bootstrap(s, v) ==
    LET missing == Cardinality(DOMAIN s.active) = 0
                   \/ Cardinality(DOMAIN s.display) = 0
        s0 == [s EXCEPT !.phase = "ready"]
    IN  IF missing
        THEN fallback(s0)
        ELSE [construct(s0, v) EXCEPT !.app = TRUE,
                                      !.listeners = @ \cup {"globalKeydown"}]

-----------------------------------------------------------------------------
(* Utils.debounce.  d.timeout is the closure's `timeout` variable (0 while
   undefined), d.timers the browser's pending timers, each with the
   arguments its `later` closure captured, d.invoked the calls of func. *)

DebArgs == 1..MaxArg

DebInit == [timeout |-> 0, timers |-> {}, nextId |-> 1, invoked |-> <<>>,
            lastArgs |-> 0, open |-> FALSE, bursts |-> 0]

\* clearTimeout(id): an unknown or expired id is ignored
clearTimeout(d, id) == [d EXCEPT !.timers = {t \in @ : t.id # id}]

\* setTimeout(later, wait): a fresh id, returned to the caller
setTimeout(d, args) ==
    [d EXCEPT !.timers = @ \cup {[id |-> d.nextId, args |-> args]},
              !.nextId = @ + 1]

\* a debounced function that schedules without cancelling
executedFunction_NoClear(d, args) ==
    [setTimeout(d, args) EXCEPT !.timeout = d.nextId]

\* executedFunction(...args): cancel the pending timer, schedule a new one
executedFunction(d, args) ==
    LET d1 == clearTimeout(d, d.timeout)
    IN  [setTimeout(d1, args) EXCEPT !.timeout = d1.nextId]

\* later(): clearTimeout(timeout), then func(...args)
later(d, args) ==
    [clearTimeout(d, d.timeout) EXCEPT !.invoked = Append(@, args)]

-----------------------------------------------------------------------------
(* Inputs *)

WeekArgs == {Num(n) : n \in 0..(MaxElems + 1)} \cup {Half(0), Half(2)}

NoKey == ""

\* the input being handled: which one, whether it follows an identical
\* input ("same") or a nextWeek call ("nextWeek"), whether its handlers
\* changed currentWeek, and what else they did
Event(op, arg, key, alt, s) ==
    [op |-> op, arg |-> arg, key |-> key, alt |-> alt,
     after |-> IF last.op = op /\ last.arg = arg /\ last.key = key
                  /\ last.alt = alt THEN "same"
               ELSE IF last.op = "nextWeek" THEN "nextWeek"
               ELSE "other",
     moved |-> s.currentWeek # currentWeek,
     selects |-> s.selects, announces |-> s.announces, alerts |-> s.alerts]

\* the handlers' result r becomes the next state
Apply(r) ==
    /\ phase'        = r.phase
    /\ app'          = r.app
    /\ listeners'    = r.listeners
    /\ currentWeek'  = r.currentWeek
    /\ display'      = r.display
    /\ ariaHidden'   = r.ariaHidden
    /\ active'       = r.active
    /\ ariaSelected' = r.ariaSelected
    /\ liveRegions'  = r.liveRegions
    /\ liveText'     = r.liveText
    /\ focus'        = r.focus
    /\ UNCHANGED <<variant, nButtons, nPanels, deb>>

Record(op, arg, key, alt, r) ==
    /\ last' = Event(op, arg, key, alt, r)
    /\ UNCHANGED evq

\* the pages: triggers and panels in equal number, or one kind (or both)
\* missing altogether
Pages == {pg \in (0..MaxElems) \X (0..MaxElems) :
             pg[1] = pg[2] \/ pg[1] = 0 \/ pg[2] = 0}

Init ==
    /\ variant \in Variants
    /\ \E pg \in Pages : nButtons = pg[1] /\ nPanels = pg[2]
    /\ phase = "loading"
    /\ app = FALSE
    /\ listeners = {}
    /\ currentWeek = 0
    /\ display = [i \in 1..nPanels |-> ""]
    /\ ariaHidden = [i \in 1..nPanels |-> "unset"]
    /\ active = [i \in 1..nButtons |-> FALSE]
    /\ ariaSelected = [i \in 1..nButtons |-> "unset"]
    /\ liveRegions = 0
    /\ liveText = <<>>
    /\ focus = Body
    /\ last = [op |-> "load", arg |-> Num(0), key |-> NoKey, alt |-> FALSE,
               after |-> "other", moved |-> FALSE, selects |-> 0,
               announces |-> 0, alerts |-> 0]
    /\ deb = DebInit
    /\ evq = [queue |-> <<>>, arrived |-> 0,
              ref |-> [cw |-> 1, focus |-> Body]]

\* the browser fires DOMContentLoaded once
DOMContentLoaded ==
    /\ phase = "loading"
    /\ LET r == bootstrap(St, variant)
       IN  Apply(r) /\ Record("DOMContentLoaded", Num(0), NoKey, FALSE, r)

\* the user clicks the trigger at position i; whether the click also moves
\* the focus to the trigger depends on the browser
Click(i) ==
    /\ phase = "ready"
    /\ i \in 1..nButtons
    /\ \E f \in {focus, Button(i)} :
         LET r == dispatchClick([St EXCEPT !.focus = f], variant, i)
         IN  Apply(r) /\ Record("click", Num(i), NoKey, FALSE, r)

\* the user presses a key; the event's target is the focused element
KeyDown(k, alt) ==
    /\ phase = "ready"
    /\ LET e == [key |-> k, altKey |-> alt, target |-> focus]
           r == dispatchKeydown(St, variant, e)
       IN  Apply(r) /\ Record("keydown", Num(0), k, alt, r)

\* the user moves the focus (Tab, or a click into a field)
MoveFocus(f) ==
    /\ phase = "ready"
    /\ f \in Focusable(nButtons)
    /\ f # focus
    /\ LET r == [St EXCEPT !.focus = f]
       IN  Apply(r) /\ Record("focus", Num(0), NoKey, FALSE, r)

\* direct calls of the controller's public methods
CallShowWeek(x) ==
    /\ app
    /\ LET r == showWeek(St, variant, x)
       IN  Apply(r) /\ Record("showWeek", x, NoKey, FALSE, r)

CallNextWeek ==
    /\ app
    /\ LET r == nextWeek(St, variant)
       IN  Apply(r) /\ Record("nextWeek", Num(0), NoKey, FALSE, r)

CallPreviousWeek ==
    /\ app
    /\ LET r == previousWeek(St, variant)
       IN  Apply(r) /\ Record("previousWeek", Num(0), NoKey, FALSE, r)

Next ==
    \/ DOMContentLoaded
    \/ \E i \in 1..MaxElems : Click(i)
    \/ \E k \in Keys, alt \in BOOLEAN : KeyDown(k, alt)
    \/ \E f \in Focusable(MaxElems) : MoveFocus(f)
    \/ \E x \in WeekArgs : CallShowWeek(x)
    \/ CallNextWeek
    \/ CallPreviousWeek

Spec == Init /\ [][Next]_vars

-----------------------------------------------------------------------------
(* User inputs waiting in the browser's event queue.  Each input is
   dispatched on its own, in arrival order, and its listeners run to
   completion (they are synchronous: no await, no timer) before the next
   input is taken.  A key event's target is the element focused when the
   event is dispatched. *)

pageVarsNoQueue == <<variant, nButtons, nPanels, phase, app, listeners,
                     currentWeek, display, ariaHidden, active, ariaSelected,
                     liveRegions, liveText, focus, last, deb>>

ClickInput(i)    == [kind |-> "click", idx |-> i, key |-> NoKey, alt |-> FALSE]
KeyInput(k, alt) == [kind |-> "key",   idx |-> 0, key |-> k,     alt |-> alt]

QueueInputs == {ClickInput(1), ClickInput(3),
                KeyInput("ArrowLeft", FALSE), KeyInput("ArrowRight", FALSE),
                KeyInput("Enter", FALSE), KeyInput("2", FALSE),
                KeyInput("4", TRUE)}

\* the week and the focus one input leaves behind, on the variant's page:
\* a click on trigger i selects and focuses it; Enter on a focused trigger
\* selects it; an arrow steps by one inside 1..N and focuses the trigger;
\* a digit selects and focuses in the 5-week script only; Alt+digit
\* selects, and in the 5-week script the digit branch also focuses
RefStep(g, in, v) ==
    IF in.kind = "click"
    THEN [cw |-> in.idx, focus |-> Button(in.idx)]
    ELSE CASE in.key = "Enter" ->
                IF g.focus.tag = "BUTTON"
                THEN [g EXCEPT !.cw = g.focus.idx] ELSE g
           [] in.key = "ArrowRight" ->
                LET w == Min(MaxWeek(v), g.cw + 1)
                IN  [cw |-> w, focus |-> Button(w)]
           [] in.key = "ArrowLeft" ->
                LET w == Max(1, g.cw - 1)
                IN  [cw |-> w, focus |-> Button(w)]
           [] OTHER ->
                LET w == ParseInt(in.key).n
                IN  IF v = "v5" THEN [cw |-> w, focus |-> Button(w)]
                    ELSE IF in.alt THEN [g EXCEPT !.cw = w]
                    ELSE g

\* the inputs of q applied one after the other, first to last
RECURSIVE FoldRef(_, _, _)
FoldRef(g, q, v) ==
    IF q = <<>> THEN g ELSE FoldRef(RefStep(g, Head(q), v), Tail(q), v)

\* an input arrives while earlier ones may still be waiting
Arrive(in) ==
    /\ app
    /\ evq.arrived < MaxInputs
    /\ evq' = [queue   |-> Append(evq.queue, in),
               arrived |-> evq.arrived + 1,
               ref     |-> RefStep(evq.ref, in, variant)]
    /\ UNCHANGED pageVarsNoQueue

\* the event loop takes the oldest input and runs its listeners
HandleNext ==
    /\ evq.queue # <<>>
    /\ LET in == Head(evq.queue)
           r  == IF in.kind = "click"
                 THEN dispatchClick([St EXCEPT !.focus = Button(in.idx)],
                                    variant, in.idx)
                 ELSE dispatchKeydown(St, variant,
                                      [key |-> in.key, altKey |-> in.alt,
                                       target |-> focus])
       IN  Apply(r)
    /\ evq' = [evq EXCEPT !.queue = Tail(@)]
    /\ UNCHANGED last

InitQueue == Init /\ nButtons = MaxWeek(variant) /\ nPanels = MaxWeek(variant)

NextQueue ==
    \/ DOMContentLoaded
    \/ \E in \in QueueInputs : Arrive(in)
    \/ HandleNext

SpecQueue == InitQueue /\ [][NextQueue]_vars

-----------------------------------------------------------------------------
(* A debounced function in use.  A burst is a run of calls with no timer
   expiry in between; deb.open and deb.bursts keep track of the bursts. *)

pageVars == <<variant, nButtons, nPanels, phase, app, listeners, currentWeek,
              display, ariaHidden, active, ariaSelected, liveRegions,
              liveText, focus, last, evq>>

\* some caller invokes the debounced function
DebouncedCall(a) ==
    /\ deb.nextId <= MaxCalls
    /\ deb' = [executedFunction(deb, a) EXCEPT
                 !.lastArgs = a,
                 !.bursts   = IF deb.open THEN @ ELSE @ + 1,
                 !.open     = TRUE]
    /\ UNCHANGED pageVars

\* a pending timer expires: the browser drops it and runs its callback
TimerFires ==
    /\ \E t \in deb.timers :
         deb' = [later([deb EXCEPT !.timers = @ \ {t}], t.args)
                   EXCEPT !.open = FALSE]
    /\ UNCHANGED pageVars

InitDebounce == Init /\ variant = "v4" /\ nButtons = 0 /\ nPanels = 0

NextDebounce ==
    \/ \E a \in DebArgs : DebouncedCall(a)
    \/ TimerFires

SpecDebounce == InitDebounce /\ [][NextDebounce]_vars

-----------------------------------------------------------------------------
(* Derived notions used by the properties *)

N == MaxWeek(variant)

\* the page meets the variant's markup contract: N triggers and N panels
Contract == nButtons = N /\ nPanels = N

Visible(s, i)  == s.display[i] = "block"
Selected(s, i) == s.active[i] /\ s.ariaSelected[i] = "true"

\* what select/next/previous are specified to determine
View(s) == [currentWeek |-> s.currentWeek, display |-> s.display,
            ariaHidden |-> s.ariaHidden, active |-> s.active,
            ariaSelected |-> s.ariaSelected]

\* week k, and only week k, is shown: its panel is the one visible panel
\* (aria-hidden the negation of visible) and its trigger the one that
\* carries the active class and aria-selected = true
OnlyWeekShown(s, k) ==
    /\ k \in DOMAIN s.display
    /\ k \in DOMAIN s.active
    /\ \A i \in DOMAIN s.display :
         /\ Visible(s, i) <=> i = k
         /\ s.ariaHidden[i] = IF Visible(s, i) THEN "false" ELSE "true"
    /\ \A i \in DOMAIN s.active :
         /\ s.active[i] <=> i = k
         /\ s.ariaSelected[i] = "true" <=> i = k

InTextField(f) == f.tag = "INPUT" \/ f.tag = "TEXTAREA"

IsArrowKey(k) == k = "ArrowLeft" \/ k = "ArrowRight"

\* the argument is one showWeek accepts on the variant's page: an integer
\* in 1..N
InRange(x) == x.int /\ x.n \in 1..N

TypeOK ==
    /\ variant \in Variants
    /\ phase \in {"loading", "ready"}
    /\ app \in BOOLEAN
    /\ currentWeek \in 0..(MaxElems + 1)
    /\ liveRegions \in 0..1

-----------------------------------------------------------------------------
(* Properties *)

\* C1: on the variant's page, after select(k) with k in 1..N, whatever the
\* state before, the k-th panel is the only visible one (aria-hidden the
\* negation of visible) and the k-th trigger the only active/selected one.
C1_SelectShowsOnlyK ==
    (Contract /\ last.op = "showWeek" /\ InRange(last.arg))
        => /\ currentWeek = last.arg.n
           /\ OnlyWeekShown(St, last.arg.n)

C1_Witness ==
    /\ Contract
    /\ last.op = "showWeek" /\ last.arg = Num(3) /\ last.moved
    /\ currentWeek = 3
    /\ display[3] = "block" /\ display[1] = "none"
    /\ active[3] /\ ~active[1]

\* C2: once the controller is constructed on the variant's page, in every
\* state (after the initial render and after any input, rejected ones
\* included) currentWeek is in 1..N and exactly that week is shown; the
\* state right after construction is week 1.
C2_ExactlyOneActive ==
    (app /\ Contract)
        => /\ currentWeek \in 1..N
           /\ OnlyWeekShown(St, currentWeek)
           /\ (last.op = "DOMContentLoaded" => currentWeek = 1)

C2_Witness ==
    /\ app /\ Contract
    /\ last.op = "showWeek" /\ last.arg = Num(0) /\ last.alerts = 1
    /\ currentWeek = 2
    /\ display[2] = "block"

\* C3: select(k) with k outside 1..N (non-integers included) changes
\* neither currentWeek, nor the panels, nor the triggers, nor the live
\* region, announces nothing and raises exactly one alert; the call
\* returns normally.
C3_RejectedSelectIsNoOp ==
    [][ (last'.op = "showWeek" /\ ~InRange(last'.arg))
          => /\ View(St)' = View(St)
             /\ liveText' = liveText
             /\ liveRegions' = liveRegions
             /\ focus' = focus
             /\ last'.announces = 0
             /\ last'.alerts = 1
             /\ last'.selects = 1 ]_vars

\* the scenario of the 4-week page: select(3), then select(5)
C3_Witness ==
    /\ variant = "v4" /\ Contract
    /\ last.op = "showWeek" /\ last.arg = Num(5)
    /\ last.alerts = 1 /\ last.announces = 0 /\ ~last.moved
    /\ currentWeek = 3
    /\ display[3] = "block"
    /\ liveText = Announcement(3)

\* C4: select(k) right after an accepted select(k) leaves currentWeek, the
\* panels and the triggers as the first call left them, and each of the
\* two calls writes its announcement (no deduplication).
C4_SelectIdempotent ==
    [][ (/\ last.op = "showWeek" /\ InRange(last.arg)
         /\ last'.op = "showWeek" /\ last'.arg = last.arg)
          => /\ View(St)' = View(St)
             /\ currentWeek' = last.arg.n
             /\ last.announces = 1
             /\ last'.announces = 1
             /\ liveText' = Announcement(last.arg.n) ]_vars

C4_Witness ==
    /\ Contract
    /\ last.op = "showWeek" /\ last.arg = Num(2) /\ last.after = "same"
    /\ last.announces = 1 /\ ~last.moved
    /\ currentWeek = 2
    /\ display[2] = "block"

\* C5: next() moves from currentWeek to currentWeek + 1, except at N where
\* it stays; previous() moves to currentWeek - 1, except at 1 where it
\* stays.  Nothing wraps around.
C5_BoundaryClamp ==
    [][ /\ last'.op = "nextWeek"
          => currentWeek' = (IF currentWeek = N THEN N ELSE currentWeek + 1)
        /\ last'.op = "previousWeek"
          => currentWeek' = (IF currentWeek = 1 THEN 1 ELSE currentWeek - 1)
      ]_vars

\* next() called at the last week
C5_Witness ==
    /\ Contract
    /\ last.op = "nextWeek" /\ ~last.moved
    /\ currentWeek = N
    /\ display[N] = "block"

\* C6: from a state with 1 < currentWeek < N, next() followed by
\* previous() restores currentWeek, the panels and the triggers.
C6_NextPreviousRoundTrip ==
    (app /\ 1 < currentWeek /\ currentWeek < N)
        => View(previousWeek(nextWeek(St, variant), variant)) = View(St)

\* previous() right after next(), both away from the boundaries
C6_Witness ==
    /\ Contract
    /\ last.op = "previousWeek" /\ last.after = "nextWeek" /\ last.moved
    /\ currentWeek \in 2..(N - 2)
    /\ display[currentWeek] = "block"

\* C7 as stated: in both variants, an unmodified digit key k in 1..N
\* pressed with the focus outside a text field selects week k: afterwards
\* currentWeek = k and panel k is the only visible one.
C7_DigitKeySelectsInEveryVariant ==
    [][ \A k \in 1..N :
          (/\ app /\ Contract
           /\ last'.op = "keydown" /\ last'.key = DigitKey(k) /\ ~last'.alt
           /\ ~InTextField(focus))
            => /\ currentWeek' = k
               /\ OnlyWeekShown(St, k)' ]_vars

\* C7 as amended: in the 5-week variant an unmodified digit key k in 1..5
\* pressed with the focus outside a text field selects week k (currentWeek
\* = k, panel k the only visible one); the 4-week variant binds no
\* unmodified digit key: there such a key press calls no select and
\* changes nothing.
C7_DigitKeySelectsInV5 ==
    [][ \A k \in 1..N :
          (/\ app /\ Contract
           /\ last'.op = "keydown" /\ last'.key = DigitKey(k) /\ ~last'.alt
           /\ ~InTextField(focus))
            => IF variant = "v5"
               THEN /\ currentWeek' = k
                    /\ OnlyWeekShown(St, k)'
                    /\ last'.selects = 1
               ELSE /\ View(St)' = View(St)
                    /\ focus' = focus
                    /\ liveText' = liveText
                    /\ last'.selects = 0 ]_vars

C7_Witness ==
    /\ variant = "v5" /\ Contract
    /\ last.op = "keydown" /\ last.key = "5" /\ ~last.alt /\ last.moved
    /\ last.selects = 1
    /\ currentWeek = 5
    /\ display[5] = "block"

\* C8: in both variants, with the focus in an INPUT or TEXTAREA, an arrow
\* key or an unmodified digit key changes neither currentWeek, nor the
\* panels, nor the triggers, nor the focus, nor the announcement; Alt +
\* digit k in 1..N selects week k wherever the focus is.
C8_TextFieldKeysIgnored ==
    [][ (app /\ Contract /\ last'.op = "keydown")
          => /\ (/\ InTextField(focus)
                 /\ \/ IsArrowKey(last'.key)
                    \/ (~last'.alt /\ \E k \in 0..9 : last'.key = DigitKey(k)))
                  => /\ View(St)' = View(St)
                     /\ focus' = focus
                     /\ liveText' = liveText
                     /\ last'.announces = 0
             /\ \A k \in 1..N :
                  (last'.alt /\ last'.key = DigitKey(k)) => currentWeek' = k
      ]_vars

\* C9: after page-ready, if the page has no trigger or no panel, no
\* controller exists, no listener is registered and every panel is and
\* stays visible whatever is clicked or pressed; otherwise the controller
\* exists and the initial render shows exactly the week-1 panel.
C9_BootstrapFallback ==
    phase = "ready"
        => IF nButtons = 0 \/ nPanels = 0
           THEN /\ ~app
                /\ listeners = {}
                /\ \A i \in 1..nPanels : display[i] = "block"
           ELSE /\ app
                /\ last.op = "DOMContentLoaded"
                     => /\ currentWeek = 1
                        /\ \A i \in 1..nPanels :
                             display[i] = IF i = 1 THEN "block" ELSE "none"

\* a key pressed on a page whose triggers are missing
C9_Witness ==
    /\ phase = "ready"
    /\ nButtons = 0 /\ nPanels = 4
    /\ last.op = "keydown" /\ last.key = "ArrowRight"
    /\ ~app
    /\ \A i \in 1..nPanels : display[i] = "block"

\* C10: on every page with one or more panels, the bound of select's range
\* check and of the next/previous/arrow clamp is the number of panels found
\* at start-up: currentWeek never exceeds it and every panel position is
\* accepted by select.
C10_BoundIsPanelCount ==
    app => /\ currentWeek \in 1..nPanels
           /\ \A k \in 1..nPanels :
                showWeek(St, variant, Num(k)).currentWeek = k
           /\ \A k \in 0..(MaxElems + 1) :
                ~InvalidWeek(variant, Num(k)) <=> k \in 1..nPanels

\* C11: with the focus outside a text field, ArrowRight changes
\* currentWeek, the panels and the triggers exactly as next() would and
\* ArrowLeft exactly as previous() would (one step, clamped to 1..N), and
\* afterwards the focus is on the trigger at position currentWeek.
C11_ArrowsAreNextPrevious ==
    [][ (/\ app /\ Contract
         /\ last'.op = "keydown" /\ IsArrowKey(last'.key)
         /\ ~InTextField(focus))
          => /\ View(St)' = View(IF last'.key = "ArrowRight"
                                 THEN nextWeek(St, variant)
                                 ELSE previousWeek(St, variant))
             /\ currentWeek' \in 1..N
             /\ focus' = Button(currentWeek') ]_vars

C11_Witness ==
    /\ Contract
    /\ last.op = "keydown" /\ last.key = "ArrowRight" /\ last.moved
    /\ currentWeek = 3
    /\ display[3] = "block"
    /\ focus = Button(3)

\* C12: in the 5-week variant, an unmodified digit key k in 1..5 pressed
\* with the focus outside a text field sets currentWeek to k and moves the
\* focus to trigger k.
C12_DigitKeyFocusesTrigger ==
    [][ \A k \in 1..5 :
          (/\ app /\ Contract /\ variant = "v5"
           /\ last'.op = "keydown" /\ last'.key = DigitKey(k) /\ ~last'.alt
           /\ ~InTextField(focus))
            => /\ currentWeek' = k
               /\ focus' = Button(k) ]_vars

\* the scenario of the 5-week page: key 2
C12_Witness ==
    /\ variant = "v5" /\ Contract
    /\ last.op = "keydown" /\ last.key = "2" /\ ~last.alt /\ last.moved
    /\ currentWeek = 2
    /\ focus = Button(2)

\* C13: on the variant's page, from every state and for every j in 1..N,
\* select(j), a click on trigger j, and Enter or Space on the focused
\* trigger j are all possible and each leads to currentWeek = j in one
\* step; so no state is terminal.
C13_FullyConnected ==
    (app /\ Contract)
        => \A j \in 1..N :
             /\ showWeek(St, variant, Num(j)).currentWeek = j
             /\ dispatchClick(St, variant, j).currentWeek = j
             /\ \A key \in {"Enter", " "} :
                  dispatchKeydown(St, variant,
                                  [key |-> key, altKey |-> FALSE,
                                   target |-> Button(j)]).currentWeek = j
             /\ ENABLED CallShowWeek(Num(j))
             /\ ENABLED Click(j)

\* a click that went from another week straight to week 1
C13_Witness ==
    /\ Contract
    /\ last.op = "click" /\ last.arg = Num(1) /\ last.moved
    /\ currentWeek = 1
    /\ display[1] = "block"

\* C14: no live region exists before the first accepted select (none
\* after construction and the initial render, which announce nothing);
\* an input that announces nothing, such as a rejected select, creates
\* none; the first announcement creates one and every later one reuses
\* it, so there is never more than one.
C14_LiveRegionSingleton ==
    /\ liveRegions = 0
    /\ [][ /\ liveRegions' \in 0..1
           /\ last'.op = "DOMContentLoaded"
                => (liveRegions' = 0 /\ last'.announces = 0)
           /\ last'.announces = 0 => liveRegions' = liveRegions
           /\ last'.announces > 0 => liveRegions' = 1 ]_vars

\* an announcement that found the region already there
C14_Witness ==
    /\ liveRegions = 1
    /\ last.op = "showWeek" /\ last.after = "same" /\ last.announces = 1
    /\ liveText = Announcement(currentWeek)

\* C15: previous() at currentWeek = 1 and next() at currentWeek = N leave
\* currentWeek, the panels and the triggers as they are, yet call select
\* once, which announces the unchanged week once and raises no alert.
C15_BoundaryCallReannounces ==
    [][ /\ (last'.op = "nextWeek" /\ currentWeek = N)
             => /\ View(St)' = View(St)
                /\ last'.selects = 1 /\ last'.announces = 1
                /\ last'.alerts = 0
                /\ liveText' = Announcement(N)
        /\ (last'.op = "previousWeek" /\ currentWeek = 1)
             => /\ View(St)' = View(St)
                /\ last'.selects = 1 /\ last'.announces = 1
                /\ last'.alerts = 0
                /\ liveText' = Announcement(1) ]_vars

\* previous() called at the first week
C15_Witness ==
    /\ Contract
    /\ last.op = "previousWeek" /\ ~last.moved
    /\ last.selects = 1 /\ last.announces = 1 /\ last.alerts = 0
    /\ currentWeek = 1
    /\ liveText = Announcement(1)

\* C17: whenever the live region exists, its text is the announcement of
\* currentWeek, and no panel other than that week's is visible: the
\* announced week, currentWeek and the visible panel never disagree.
C17_AnnouncementMatchesWeek ==
    liveRegions >= 1
        => /\ liveText = Announcement(currentWeek)
           /\ \A i \in 1..nPanels : Visible(St, i) => i = currentWeek
           /\ Contract => Visible(St, currentWeek)

\* a rejected select after an accepted one
C17_Witness ==
    /\ Contract
    /\ liveRegions = 1
    /\ last.op = "showWeek" /\ last.alerts = 1 /\ last.announces = 0
    /\ currentWeek = 4
    /\ liveText = Announcement(4)
    /\ display[4] = "block"

\* C18: one click or one key press (Alt+digit and Enter/Space on a focused
\* trigger included) calls select at most once and so announces at most
\* once, in both variants.
C18_OneSelectPerInput ==
    (app /\ Contract /\ last.op \in {"click", "keydown"})
        => /\ last.selects <= 1
           /\ last.announces <= 1

\* C19: on the variant's page no click and no key press (Enter, Space,
\* arrows, digits, Alt+digit), in any state, hands select a value it
\* rejects: no user-interface input raises an alert.
C19_NoAlertFromUI ==
    (Contract /\ last.op \in {"DOMContentLoaded", "click", "keydown", "focus"})
        => last.alerts = 0

\* Alt+5 on the 4-week page: outside the shortcut's range, so ignored
C19_Witness ==
    /\ variant = "v4" /\ Contract
    /\ last.op = "keydown" /\ last.key = "5" /\ last.alt
    /\ last.selects = 0 /\ last.alerts = 0
    /\ currentWeek = 4

\* C20: a call of the debounced function cancels the pending callback and
\* schedules a new one, so at most one callback is pending, it carries the
\* arguments of the latest call, and when a burst of calls ends with the
\* timer's expiry func has been invoked once for that burst, with the
\* arguments of the burst's last call.
C20_DebounceOncePerBurst ==
    /\ Cardinality(deb.timers) <= 1
    /\ deb.open <=> deb.timers # {}
    /\ deb.timers # {}
         => deb.timers = {[id |-> deb.timeout, args |-> deb.lastArgs]}
    /\ Len(deb.invoked) = deb.bursts - (IF deb.open THEN 1 ELSE 0)
    /\ (~deb.open /\ deb.bursts > 0)
         => deb.invoked[Len(deb.invoked)] = deb.lastArgs

\* a burst of three calls has ended in one invocation, with the argument
\* of its last call
C20_Witness ==
    /\ deb.nextId = 4
    /\ deb.bursts = 1 /\ ~deb.open
    /\ deb.invoked = <<2>>
    /\ deb.lastArgs = 2
    /\ deb.timers = {}

\* C16: inputs are handled one at a time in arrival order: at any moment
\* the inputs still waiting, applied in order to the current week and
\* focus, give what all the inputs that arrived give when applied in
\* arrival order to the initial state (week 1); so once the queue is
\* empty currentWeek is that result, the target of the last accepted
\* select.
C16_FifoFold ==
    app => /\ FoldRef([cw |-> currentWeek, focus |-> focus],
                      evq.queue, variant) = evq.ref
           /\ evq.queue = <<>>
                => /\ currentWeek = evq.ref.cw
                   /\ focus = evq.ref.focus
                   /\ (liveRegions = 0 => currentWeek = 1)
                   /\ (liveRegions = 1 => liveText = Announcement(currentWeek))

\* three inputs arrived and all were handled
C16_Witness ==
    /\ evq.arrived = 3 /\ evq.queue = <<>>
    /\ currentWeek = 4 /\ evq.ref.cw = 4
    /\ focus = Button(3)
    /\ liveText = Announcement(4)

====
